---- MODULE Spec2Model ----
(***************************************************************************)
(* replkit2: the command registry, dispatch and view machinery of App      *)
(* (src/src/replkit2/app.py, mirrored by src/src/replkit2/__init__.py).    *)
(*                                                                         *)
(* Python objects are modelled by reference: facades, registries (the      *)
(* _commands dicts) and state instances live in heaps and are named by     *)
(* their index, so that "the same dict" and "the same instance" are        *)
(* distinguishable from "an equal copy".                                   *)
(***************************************************************************)
EXTENDS Integers, Sequences, FiniteSets, TLC

\* Bound on the number of command / using / bind calls of a run.
MaxCalls == 2
\* Bound on the value the state instance's counter may reach.
MaxVal == 2
\* Bounds on the rows of a table and on the cells of a row or header list.
MaxRows == 2
MaxCols == 2
\* Bounds on the length of a box's content and on its width argument.
MaxLen == 4
MaxWidth == 7
\* Bound on the number of items of a list.
MaxItems == 10
\* Bound on the number of keys of a mapping given to tree.
MaxKeys == 2

\* ------------------------------------------------------------------ inputs
\* __name__ of the functions a caller decorates.
FuncNames == {"f", "g", "help"}
\* display= argument of App.command ("None": absent).
Displays == {"None", "table"}
\* aliases= argument of App.command.
AliasLists == {<<>>, <<"g">>}
Serializers == {"text", "json", "passthrough"}
\* serializer argument of App(...): left absent, which selects TextSerializer.
RootSerializers == {"text"}
\* state_class argument of App(...): absent, a class whose instances are
\* always truthy, or a container-like class (__len__/__bool__) whose
\* instances are falsy while empty.
StateClasses == {"None", "Plain", "Container"}
\* *args of App.execute.
ArgLists == {<<>>, <<1>>}
\* Namespaces (dicts) a caller may pass to App.bind.
Namespaces == {"ns1", "ns2"}

VARIABLES
    apps,       \* heap of App instances: [state_class, state, serializer, commands]
    regHeap,    \* heap of _commands dicts: [keys (insertion order), map]
    mcpHeap,    \* heap of _mcp_components dicts: [tools, resources, prompts]
    stateHeap,  \* heap of state instances (each a counter value)
    nsHeap,     \* the namespaces: name -> bound wrapper
    ncalls,     \* number of command / using / bind calls so far
    last,       \* the most recent call and what it returned or raised
    render      \* the most recent call of a textkit renderer and its output

vars == <<apps, regHeap, mcpHeap, stateHeap, nsHeap, ncalls, last, render>>

\* ------------------------------------------------------------------ values
NoResult == [tag |-> "none", val |-> 0, rows |-> <<>>]
IntResult(n) == [tag |-> "int", val |-> n, rows |-> <<>>]
RowsResult(rs) == [tag |-> "rows", val |-> 0, rows |-> rs]
\* A value json.dumps cannot encode (a set, an object).
ObjResult == [tag |-> "obj", val |-> 0, rows |-> <<>>]
\* None, where a rendered value would be.
NoRender == [kind |-> "none", display |-> "-", data |-> NoResult]
\* An exception raised inside a serializer.
SerializeError == [kind |-> "error", display |-> "-", data |-> NoResult]
\* config.width as the package sets it at import.
DefaultWidth == 80
\* No renderer has been called; cfg is the process-wide config.width.
NoRenderCall ==
    [fn |-> "none", cfg |-> DefaultWidth, args |-> <<>>, done |-> FALSE, out |-> <<>>,
     cfg2 |-> DefaultWidth, again |-> FALSE, out2 |-> <<>>]
\* A call of renderer fn about to be made, with config.width at cfg.  After
\* the call, cfg2 is config.width as later assignments leave it, and out2
\* the output of a second call with the same arguments.
RenderCall(fn, cfg, args) ==
    [fn |-> fn, cfg |-> cfg, args |-> args, done |-> FALSE, out |-> <<>>,
     cfg2 |-> cfg, again |-> FALSE, out2 |-> <<>>]

\* CommandMeta(display, display_opts, aliases); mid is the object's identity.
\* A fastmcp= argument: None, or a dict with the keys "type" and "enabled"
\* ("absent": the key is not in the dict).
NoFastMCP == [given |-> FALSE, type |-> "absent", enabled |-> "absent"]
FastMCP(type, enabled) == [given |-> TRUE, type |-> type, enabled |-> enabled]

CommandMeta(display, aliases, mid) ==
    [display |-> display, aliases |-> aliases, mid |-> mid, fastmcp |-> NoFastMCP]

\* A function object: __name__, what its body does, its identity, and the
\* facade its closure captured as self (0: none).
Func(name, body, fid, self) == [name |-> name, body |-> body, fid |-> fid, self |-> self]

NoPair == [func |-> Func("", "", 0, 0), meta |-> CommandMeta("None", <<>>, 0)]

\* The body of the function a caller defines under each name: f mutates the
\* state and returns the new value, but raises after the mutation when it is
\* given an extra argument; g reads the state; help is an explicit help that
\* returns an object rather than plain data.
Body(name) == CASE name = "f" -> "inc" [] name = "g" -> "get" [] OTHER -> "const"

EmptyDict == [keys |-> <<>>, map |-> <<>>]

\* {"tools": {}, "resources": {}, "prompts": {}}
EmptyComponents == [tools |-> EmptyDict, resources |-> EmptyDict, prompts |-> EmptyDict]

Keys(d) == DOMAIN d.map

\* d[k] = v on a dict: a new key goes last, an existing key keeps its place.
Put(d, k, v) ==
    [keys |-> IF k \in Keys(d) THEN d.keys ELSE Append(d.keys, k),
     map  |-> (k :> v) @@ d.map]

\* state_class(): a fresh instance, its counter at 0.
NewState(cls) == [cls |-> cls, val |-> 0]

\* Python truthiness of a state instance: a container is falsy while empty.
Truthy(inst) == IF inst.cls = "Container" THEN inst.val > 0 ELSE TRUE

\* The record of a call; the fields a call does not use keep these defaults.
Call(op, a) ==
    [op |-> op, app |-> a, name |-> "", args |-> <<>>, ser |-> "", ns |-> "",
     outcome |-> "ok", calls |-> 0, sercalls |-> 0, passed |-> 0, pair |-> NoPair,
     result |-> NoResult, rendered |-> NoRender,
     printed |-> NoRender, returned |-> NoRender]

\* ------------------------------------------------------------ serializers
\* TextSerializer.serialize(data, meta): the text of data laid out by the
\* renderer meta.display names.
TextSerialize(data, meta) ==
    [kind |-> "text", display |-> meta.display, data |-> data]

\* Variant: the passthrough strategy encodes the value.
Serialize_PassthroughEncodes(ser, data, meta) ==
    IF ser = "text" THEN TextSerialize(data, meta)
    ELSE [kind |-> "json", display |-> "-", data |-> data]

\* Variant: the JSON strategy records the display kind in its output.
Serialize_JsonUsesMeta(ser, data, meta) ==
    CASE ser = "json" -> [kind |-> "json", display |-> meta.display, data |-> data]
      [] ser = "passthrough" -> [kind |-> "raw", display |-> "-", data |-> data]
      [] OTHER -> TextSerialize(data, meta)

\* Serializer.serialize(data, meta) of the three strategies: JSONSerializer
\* encodes data with json.dumps (which raises TypeError on a value it cannot
\* encode) and ignores meta, PassthroughSerializer returns data.
Serialize(ser, data, meta) ==
    CASE ser = "json" ->
            IF data.tag = "obj" THEN SerializeError
            ELSE [kind |-> "json", display |-> "-", data |-> data]
      [] ser = "passthrough" -> [kind |-> "raw", display |-> "-", data |-> data]
      [] OTHER -> TextSerialize(data, meta)

\* --------------------------------------------------------------- registry
RegOf(a) == regHeap[apps[a].commands]

\* App.list_commands: the keys whose stored function's __name__ is the key.
ListCommandsOf(d) ==
    SelectSeq(d.keys, LAMBDA k : d.map[k].func.name = k)

list_commands(a) == ListCommandsOf(RegOf(a))

Range(s) == {s[i] : i \in DOMAIN s}

\* ------------------------------------------------------------------- help
\* The characters of a name.
Chars(name) ==
    CASE name = "f" -> <<"f">>
      [] name = "g" -> <<"g">>
      [] name = "help" -> <<"h", "e", "l", "p">>
      [] OTHER -> <<"h", "e", "l", "p", "_", "c", "o", "m", "m", "a", "n", "d">>

\* One entry of inspect.signature(func).parameters: its name, and the repr
\* of its default when it has one.
Param(name, has_default, default) ==
    [name |-> name, has_default |-> has_default, default |-> default]

\* The parameters of the function of each body: f is f(state, n=0), g is
\* g(s), an explicit help is help(state), and bind's own is
\* help_command(state=None).
Parameters(func) ==
    LET state == <<"s", "t", "a", "t", "e">>
    IN  CASE func.body = "inc" ->
               <<Param(state, FALSE, <<>>), Param(<<"n">>, TRUE, <<"0">>)>>
          [] func.body = "get" -> <<Param(<<"s">>, FALSE, <<>>)>>
          [] func.body = "helpdata" -> <<Param(state, TRUE, <<"N", "o", "n", "e">>)>>
          [] OTHER -> <<Param(state, FALSE, <<>>)>>

\* param_name, or f"{param_name}={param.default!r}"
ParamText(p) == IF p.has_default THEN p.name \o <<"=">> \o p.default ELSE p.name

\* ", ".join(params)
RECURSIVE JoinParams(_)
JoinParams(params) ==
    IF params = <<>> THEN <<>>
    ELSE IF Len(params) = 1 THEN params[1]
    ELSE params[1] \o <<",", " ">> \o JoinParams(Tail(params))

\* f"{name}({', '.join(params)})", params being the parameters of func
\* that are not named "state".
Signature(name, func) ==
    LET ps == SelectSeq(Parameters(func),
                        LAMBDA q : q.name # <<"s", "t", "a", "t", "e">>)
        params == [i \in DOMAIN ps |-> ParamText(ps[i])]
    IN  Chars(name) \o <<"(">> \o JoinParams(params) \o <<")">>

\* The characters of a signature in code point order.
CodePoints ==
    <<" ", "(", ")", ",", "0", "=", "N", "_", "a", "c", "d", "e", "f", "g", "h",
      "l", "m", "n", "o", "p", "s", "t">>
\* ord(c), up to an increasing map.
Ord(c) == CHOOSE i \in DOMAIN CodePoints : CodePoints[i] = c

\* x < y on str.
RECURSIVE StrLess(_, _)
StrLess(x, y) ==
    IF y = <<>> THEN FALSE
    ELSE IF x = <<>> THEN TRUE
    ELSE IF Head(x) # Head(y) THEN Ord(Head(x)) < Ord(Head(y))
    ELSE StrLess(Tail(x), Tail(y))

\* One step of the stable sort: row goes after the rows not greater than it.
RECURSIVE InsertRow(_, _)
InsertRow(sorted, row) ==
    IF sorted = <<>> THEN <<row>>
    ELSE IF StrLess(row.Command, Head(sorted).Command) THEN <<row>> \o sorted
    ELSE <<Head(sorted)>> \o InsertRow(Tail(sorted), row)

\* sorted(commands, key=lambda x: x["Command"])
RECURSIVE SortRows(_)
SortRows(rows) ==
    IF rows = <<>> THEN <<>>
    ELSE InsertRow(SortRows(SubSeq(rows, 1, Len(rows) - 1)), rows[Len(rows)])

\* App._generate_help_data: one row per key whose stored function's
\* __name__ is the key, sorted by signature.
generate_help_data(d) ==
    LET names == ListCommandsOf(d)
    IN  SortRows([i \in DOMAIN names |->
                    [Command |-> Signature(names[i], d.map[names[i]].func)]])

RECURSIVE PutAliases(_, _, _)
PutAliases(d, aliases, pair) ==
    IF aliases = <<>> THEN d
    ELSE PutAliases(Put(d, Head(aliases), pair), Tail(aliases), pair)

\* The decorator of App.command: the function's own name, then every alias.
Register(d, pair) ==
    PutAliases(Put(d, pair.func.name, pair), pair.meta.aliases, pair)

\* ------------------------------------------------------------------- Init
\* App.__init__.
NewApp(cls, stateRef, ser, regRef) ==
    [state_class |-> cls, state |-> stateRef, serializer |-> ser, commands |-> regRef,
     mcp |-> regRef]

\* app = App(name, cls, ser): one facade, an empty registry, and the state
\* instance if a class was given.
InitApp(cls, ser) ==
    /\ apps = <<NewApp(cls, IF cls = "None" THEN 0 ELSE 1, ser, 1)>>
    /\ regHeap = <<EmptyDict>>
    /\ mcpHeap = <<EmptyComponents>>
    /\ stateHeap = IF cls = "None" THEN <<>> ELSE <<NewState(cls)>>
    /\ nsHeap = [n \in Namespaces |-> <<>>]
    /\ ncalls = 0
    /\ last = Call("init", 1)

Init ==
    \E cls \in StateClasses, ser \in RootSerializers :
        /\ InitApp(cls, ser)
        /\ render = NoRenderCall

AppIds == DOMAIN apps

\* ---------------------------------------------------------------- command
\* bool(fastmcp): None and the empty dict are falsy.
FastMCPTruthy(fastmcp) ==
    fastmcp.given /\ (fastmcp.type # "absent" \/ fastmcp.enabled # "absent")

\* fastmcp.get("enabled", True)
FastMCPEnabled(fastmcp) == fastmcp.enabled # "false"

\* self._mcp_components[f"{mcp_type}s"][func.__name__] = (func, meta), when
\* fastmcp is set, enabled, and of type tool, resource or prompt.
RecordComponent(t, pair) ==
    LET fastmcp == pair.meta.fastmcp
        name == pair.func.name
    IN  IF FastMCPTruthy(fastmcp) /\ FastMCPEnabled(fastmcp)
        THEN CASE fastmcp.type = "tool" -> [t EXCEPT !.tools = Put(@, name, pair)]
               [] fastmcp.type = "resource" -> [t EXCEPT !.resources = Put(@, name, pair)]
               [] fastmcp.type = "prompt" -> [t EXCEPT !.prompts = Put(@, name, pair)]
               [] OTHER -> t
        ELSE t

\* The decorator of App.command on facade a: the registry and the component
\* tables after it has run on a function named fname.
command(a, fname, display, aliases, fastmcp, id) ==
    LET pair == [func |-> Func(fname, Body(fname), id, 0),
                 meta |-> [CommandMeta(display, aliases, id) EXCEPT !.fastmcp = fastmcp]]
    IN  [reg |-> Register(RegOf(a), pair),
         mcp |-> RecordComponent(mcpHeap[apps[a].mcp], pair)]

\* App.command(display, aliases)(func) through facade a.
Command(a, fname, display, aliases) ==
    /\ ncalls < MaxCalls
    /\ LET r == command(a, fname, display, aliases, NoFastMCP, ncalls + 1)
       IN  /\ regHeap' = [regHeap EXCEPT ![apps[a].commands] = r.reg]
           /\ mcpHeap' = [mcpHeap EXCEPT ![apps[a].mcp] = r.mcp]
    /\ ncalls' = ncalls + 1
    /\ last' = [Call("command", a) EXCEPT !.name = fname]
    /\ UNCHANGED <<apps, stateHeap, nsHeap, render>>

\* App.command(display, aliases, fastmcp)(func) through facade a.
CommandFastMCP(a, fname, aliases, fastmcp) ==
    /\ ncalls < MaxCalls
    /\ LET r == command(a, fname, "None", aliases, fastmcp, ncalls + 1)
       IN  /\ regHeap' = [regHeap EXCEPT ![apps[a].commands] = r.reg]
           /\ mcpHeap' = [mcpHeap EXCEPT ![apps[a].mcp] = r.mcp]
    /\ ncalls' = ncalls + 1
    /\ last' = [Call("command", a) EXCEPT !.name = fname]
    /\ UNCHANGED <<apps, stateHeap, nsHeap, render>>

\* ---------------------------------------------------------------- execute
\* func(state, *args) or func(*args): what the function's body does.  st is
\* the state instance passed (0: none).  help_command(state=None) takes at
\* most one positional argument.
CallFunc(func, st, args, heap) ==
    LET has == st # 0
        val == IF has THEN heap[st].val ELSE Len(args)
        ok(h, r) == [raised |-> FALSE, exc |-> "", heap |-> h, result |-> r]
        raise(h, e) == [raised |-> TRUE, exc |-> e, heap |-> h, result |-> NoResult]
        heap1 == IF has THEN [heap EXCEPT ![st].val = val + 1] ELSE heap
    IN  CASE func.body = "inc" ->
               IF args # <<>> THEN raise(heap1, "RuntimeError")
               ELSE ok(heap1, IntResult(IF has THEN val + 1 ELSE val))
          [] func.body = "get" -> ok(heap, IntResult(val))
          [] func.body = "helpdata" ->
               IF (IF has THEN 1 ELSE 0) + Len(args) > 1
               THEN raise(heap, "TypeError")
               ELSE ok(heap, RowsResult(generate_help_data(RegOf(func.self))))
          [] OTHER -> ok(heap, ObjResult)

\* Variant: the state is injected by the facade's state_class, not its state.
InjectedState_ByClass(a) ==
    IF apps[a].state_class # "None" THEN apps[a].state ELSE 0

\* "if self._state is not None": the state argument of the call (0: none).
InjectedState(a) == IF apps[a].state # 0 THEN apps[a].state ELSE 0

\* Variant: an unknown name is answered with None instead of an error.
UnknownCommand_ReturnsNone(c) == c

\* Variant: the lookup error is raised only after the serializer has run.
UnknownCommand_AfterSerialize(c) == [c EXCEPT !.outcome = "ValueError", !.sercalls = 1]

\* "raise ValueError(f'Unknown command: ...')" on the call record c.
UnknownCommand(c) == [c EXCEPT !.outcome = "ValueError"]

\* Variant: execute catches the exception and returns None.
Propagate_Swallowed(c, exc) == c

\* An exception raised by the operation or by the serializer leaves execute
\* (there is no try/except): the call returns no value.
Propagate(c, exc) == [c EXCEPT !.outcome = exc]

\* App.execute(command_name, *args): the heap after the call and its record.
execute(a, name, args) ==
    LET d == RegOf(a)
        c == [Call("execute", a) EXCEPT !.name = name, !.args = args]
    IN  IF name \notin Keys(d)
        THEN [heap |-> stateHeap, call |-> UnknownCommand(c)]
        ELSE LET pair == d.map[name]
                 st == InjectedState(a)
                 r == CallFunc(pair.func, st, args, stateHeap)
                 c1 == [c EXCEPT !.calls = 1, !.passed = st, !.pair = pair,
                                 !.result = r.result]
                 c2 == [c1 EXCEPT !.sercalls = 1]
                 out == Serialize(apps[a].serializer, r.result, pair.meta)
             IN  [heap |-> r.heap,
                  call |-> IF r.raised THEN Propagate(c1, r.exc)
                           ELSE IF out.kind = "error" THEN Propagate(c2, "TypeError")
                           ELSE [c2 EXCEPT !.rendered = out]]

Execute(a, name, args) ==
    LET r == execute(a, name, args)
    IN  /\ \A i \in DOMAIN r.heap : r.heap[i].val <= MaxVal
        /\ stateHeap' = r.heap
        /\ last' = r.call
        /\ UNCHANGED <<apps, regHeap, mcpHeap, nsHeap, ncalls, render>>

\* ------------------------------------------------------------------- bind
\* The callable make_wrapper(cmd_name) of facade a, and its help_wrapper.
Wrapper(a, cmd) == [app |-> a, cmd |-> cmd, kind |-> "wrapper"]
HelpWrapper(a) == [app |-> a, cmd |-> "help", kind |-> "help_wrapper"]

\* Variant: the loop of bind wraps every key of the registry.
BoundNames_AllKeys(d) == Keys(d)

\* The names the loop of bind wraps: it skips every key whose stored
\* function's __name__ is not the key.
BoundNames(d) == {k \in Keys(d) : d.map[k].func.name = k}

\* App.bind(namespace): the registry and the namespace after the call.
bind(a, ns, id) ==
    LET d == RegOf(a)
        primary == BoundNames(d)
        bound == [k \in primary |-> Wrapper(a, k)] @@ nsHeap[ns]
        helpPair == [func |-> Func("help_command", "helpdata", id, a),
                     meta |-> CommandMeta("table", <<>>, id)]
    IN  IF "help" \notin Keys(d)
        THEN [reg |-> Put(d, "help", helpPair),
              ns  |-> ("help" :> HelpWrapper(a)) @@ bound]
        ELSE [reg |-> d, ns |-> bound]

Bind(a, ns) ==
    /\ ncalls < MaxCalls
    /\ LET r == bind(a, ns, ncalls + 1)
       IN  /\ regHeap' = [regHeap EXCEPT ![apps[a].commands] = r.reg]
           /\ nsHeap' = [nsHeap EXCEPT ![ns] = r.ns]
    /\ ncalls' = ncalls + 1
    /\ last' = [Call("bind", a) EXCEPT !.ns = ns]
    /\ UNCHANGED <<apps, mcpHeap, stateHeap, render>>

\* Variant: the wrapper returns the rendered value.
WrapperReturn_Value(rendered) == rendered

\* What wrapper / help_wrapper return: they end after print(result).
WrapperReturn(rendered) == NoRender

\* Calling the callable w of a namespace with *args: make_wrapper's wrapper
\* runs self.execute(cmd_name, *args) and prints the result; help_wrapper
\* takes no arguments and runs self.execute("help").
call_bound(w, ns, args) ==
    IF w.kind = "help_wrapper" /\ args # <<>>
    THEN [heap |-> stateHeap,
          call |-> [Call("call", w.app) EXCEPT !.name = w.cmd, !.args = args,
                                               !.ns = ns, !.outcome = "TypeError"]]
    ELSE LET r == execute(w.app, w.cmd, args)
         IN  [heap |-> r.heap,
              call |-> IF r.call.outcome = "ok"
                       THEN [r.call EXCEPT !.op = "call", !.ns = ns,
                                           !.printed = r.call.rendered,
                                           !.returned = WrapperReturn(r.call.rendered)]
                       ELSE [r.call EXCEPT !.op = "call", !.ns = ns]]

CallBound(ns, name, args) ==
    /\ name \in DOMAIN nsHeap[ns]
    /\ LET r == call_bound(nsHeap[ns][name], ns, args)
       IN  /\ \A i \in DOMAIN r.heap : r.heap[i].val <= MaxVal
           /\ stateHeap' = r.heap
           /\ last' = r.call
    /\ UNCHANGED <<apps, regHeap, mcpHeap, nsHeap, ncalls, render>>

\* ------------------------------------------------------------------ using
\* The state_class argument using passes: type(self._state) if self._state.
UsingStateClass(a) ==
    LET st == apps[a].state
    IN  IF st # 0 /\ Truthy(stateHeap[st]) THEN stateHeap[st].cls ELSE "None"

\* Variant: the view keeps the state instance its own __init__ created.
ViewOf_OwnState(a, ser, cls, freshState, freshReg) ==
    [NewApp(cls, freshState, ser, freshReg)
        EXCEPT !.commands = apps[a].commands, !.mcp = apps[a].mcp]

\* Variant: the view keeps the dict its own __init__ created.
ViewOf_OwnRegistry(a, ser, cls, freshState, freshReg) ==
    [NewApp(cls, freshState, ser, freshReg)
        EXCEPT !.state = apps[a].state, !.mcp = apps[a].mcp]

\* The new facade of using: built by App.__init__ with its own state and
\* dict (freshState, freshReg), then pointed at the original's.
ViewOf(a, ser, cls, freshState, freshReg) ==
    [NewApp(cls, freshState, ser, freshReg)
        EXCEPT !.state = apps[a].state, !.commands = apps[a].commands,
               !.mcp = apps[a].mcp]

\* Variant: using also installs the serializer on the original facade.
using_RebindsSerializer(a, ser) ==
    LET cls == UsingStateClass(a)
        heap1 == IF cls = "None" THEN stateHeap ELSE Append(stateHeap, NewState(cls))
        freshState == IF cls = "None" THEN 0 ELSE Len(heap1)
        regs1 == Append(regHeap, EmptyDict)
    IN  [apps |-> Append([apps EXCEPT ![a].serializer = ser],
                         ViewOf(a, ser, cls, freshState, Len(regs1))),
         regHeap |-> regs1,
         mcpHeap |-> Append(mcpHeap, EmptyComponents),
         stateHeap |-> heap1]

\* App.using(serializer): the three heaps after the call.
using(a, ser) ==
    LET cls == UsingStateClass(a)
        heap1 == IF cls = "None" THEN stateHeap ELSE Append(stateHeap, NewState(cls))
        freshState == IF cls = "None" THEN 0 ELSE Len(heap1)
        regs1 == Append(regHeap, EmptyDict)
    IN  [apps |-> Append(apps, ViewOf(a, ser, cls, freshState, Len(regs1))),
         regHeap |-> regs1,
         mcpHeap |-> Append(mcpHeap, EmptyComponents),
         stateHeap |-> heap1]

Using(a, ser) ==
    /\ ncalls < MaxCalls
    /\ LET r == using(a, ser)
       IN  /\ apps' = r.apps
           /\ regHeap' = r.regHeap
           /\ mcpHeap' = r.mcpHeap
           /\ stateHeap' = r.stateHeap
    /\ ncalls' = ncalls + 1
    /\ last' = [Call("using", a) EXCEPT !.ser = ser]
    /\ UNCHANGED <<nsHeap, render>>

\* ------------------------------------------------------------------- Next
Next ==
    \/ \E a \in AppIds, n \in FuncNames, dp \in Displays, al \in AliasLists :
          n \notin Range(al) /\ Command(a, n, dp, al)
    \/ \E a \in AppIds, n \in FuncNames, args \in ArgLists : Execute(a, n, args)
    \/ \E a \in AppIds, ns \in Namespaces : Bind(a, ns)
    \/ \E a \in AppIds, ser \in Serializers : Using(a, ser)
    \/ \E ns \in Namespaces, n \in FuncNames, args \in ArgLists : CallBound(ns, n, args)

Spec == Init /\ [][Next]_vars

\* ------------------------------------------------------------ text strings
\* A str is the sequence of its characters; "\n" is the newline character.
NL == "\n"
DigitChars == <<"0", "1", "2", "3", "4", "5", "6", "7", "8", "9">>

\* An optional argument: None, or a value.
None == [given |-> FALSE, val |-> <<>>]
\* None where an int is expected.
NoInt == [given |-> FALSE, val |-> 0]
Some(v) == [given |-> TRUE, val |-> v]

Max(S) == CHOOSE m \in S : \A x \in S : x <= m
SeqsUpTo(S, n) == UNION {[1..k -> S] : k \in 0..n}

\* c * n: the empty string when n <= 0.
Rep(c, n) == [i \in 1..n |-> c]
\* s.ljust(w): s itself when it is at least w long.
ljust(s, w) == s \o Rep(" ", w - Len(s))

\* sep.join(parts)
RECURSIVE Join(_, _)
Join(parts, sep) ==
    IF parts = <<>> THEN <<>>
    ELSE IF Len(parts) = 1 THEN parts[1]
    ELSE parts[1] \o sep \o Join(Tail(parts), sep)

\* s.split(sep) for a one-character sep: empty pieces are kept.
RECURSIVE Split(_, _)
Split(s, sep) ==
    IF \A i \in DOMAIN s : s[i] # sep THEN <<s>>
    ELSE LET k == CHOOSE i \in DOMAIN s : s[i] = sep /\ \A j \in 1..(i - 1) : s[j] # sep
         IN  <<SubSeq(s, 1, k - 1)>> \o Split(SubSeq(s, k + 1, Len(s)), sep)

\* str(n) of a non-negative int: its decimal digits.
RECURSIVE StrInt(_)
StrInt(n) ==
    IF n < 10 THEN <<DigitChars[n + 1]>>
    ELSE StrInt(n \div 10) \o <<DigitChars[(n % 10) + 1]>>

\* A table cell is any Python value: here an int or a str.
IntCell(n) == [tag |-> "int", val |-> n, s |-> <<>>]
StrCell(s) == [tag |-> "str", val |-> 0, s |-> s]
\* str(cell)
Str(cell) == IF cell.tag = "int" THEN StrInt(cell.val) ELSE cell.s

\* ------------------------------------------------------------------ table
CellValues == {IntCell(12), StrCell(<<"a">>)}
HeaderTexts == {<<"h">>, <<"n", "a", "m">>}
\* The lists of at most n elements of V; past the second element a list
\* repeats its first two.
ListsUpTo(V, n) ==
    {[i \in 1..k |-> IF i % 2 = 1 THEN v1 ELSE v2] : k \in 0..n, v1 \in V, v2 \in V}
RowArgs == SeqsUpTo(ListsUpTo(CellValues, MaxCols), MaxRows)
HeaderArgs == {None} \cup {Some(h) : h \in ListsUpTo(HeaderTexts, MaxCols)}

\* `if headers:` is false for None and for the empty list.
HasHeaders(headers) == headers.given /\ headers.val # <<>>

\* Variant: a row is cut but never padded.
FitRow_NoPad(row, n) == SubSeq(row, 1, IF Len(row) < n THEN Len(row) ELSE n)

\* row[:n] + [""] * (n - len(row))
FitRow(row, n) ==
    SubSeq(row, 1, IF Len(row) < n THEN Len(row) ELSE n)
        \o [i \in 1..(n - Len(row)) |-> <<>>]

NumCols(rows, headers) ==
    IF HasHeaders(headers) THEN Len(headers.val)
    ELSE IF rows = <<>> THEN 0 ELSE Max({Len(rows[r]) : r \in DOMAIN rows})

\* Variant: rows are padded to the column count with or without headers.
StrRows_AlwaysPad(rows, headers) ==
    [r \in DOMAIN rows |->
        FitRow([i \in DOMAIN rows[r] |-> Str(rows[r][i])], NumCols(rows, headers))]

\* str_rows: every cell through str(); with headers, every row fitted to
\* the number of headers.
StrRows(rows, headers) ==
    LET str_rows == [r \in DOMAIN rows |-> [i \in DOMAIN rows[r] |-> Str(rows[r][i])]]
    IN  IF HasHeaders(headers)
        THEN [r \in DOMAIN rows |-> FitRow(str_rows[r], Len(headers.val))]
        ELSE str_rows

\* Variant: the widths are those of the headers alone.
ColWidths_HeadersOnly(rows, headers) ==
    [i \in 1..NumCols(rows, headers) |->
        IF HasHeaders(headers) THEN Len(headers.val[i]) ELSE 0]

\* col_widths: the header lengths (or zeros), raised to the longest cell of
\* each column.
ColWidths(rows, headers) ==
    LET str_rows == StrRows(rows, headers)
    IN  [i \in 1..NumCols(rows, headers) |->
            Max({IF HasHeaders(headers) THEN Len(headers.val[i]) ELSE 0}
                \cup {Len(str_rows[r][i]) :
                        r \in {q \in DOMAIN str_rows : i <= Len(str_rows[q])}})]

\* result: the header line and the dash rule when there are headers, then
\* one line per row.
TableLines(rows, headers) ==
    LET str_rows == StrRows(rows, headers)
        col_widths == ColWidths(rows, headers)
        head == IF HasHeaders(headers)
                THEN <<Join([i \in DOMAIN headers.val |->
                                ljust(headers.val[i], col_widths[i])], <<" ", " ">>),
                       Join([i \in DOMAIN headers.val |->
                                Rep("-", col_widths[i])], <<" ", " ">>)>>
                ELSE <<>>
        body == [r \in DOMAIN str_rows |->
                    Join([i \in 1..(IF Len(str_rows[r]) < Len(col_widths)
                                     THEN Len(str_rows[r]) ELSE Len(col_widths)) |->
                             ljust(str_rows[r][i], col_widths[i])], <<" ", " ">>)]
    IN  head \o body

\* Variant: no early return for an empty row list.
table_NoEmptyCheck(rows, headers) == Join(TableLines(rows, headers), <<NL>>)

\* table(rows, headers=None)
table(rows, headers) ==
    IF rows = <<>> THEN <<>> ELSE Join(TableLines(rows, headers), <<NL>>)

TableCalls ==
    {RenderCall("table", DefaultWidth, [rows |-> rows, headers |-> headers]) :
        rows \in RowArgs, headers \in HeaderArgs}

Table ==
    /\ render.fn = "table" /\ ~render.done
    /\ render' = [render EXCEPT !.done = TRUE,
                                !.out = table(render.args.rows, render.args.headers)]
    /\ UNCHANGED <<apps, regHeap, mcpHeap, stateHeap, nsHeap, ncalls, last>>

\* -------------------------------------------------------------------- box
ContentChars == {"a", " ", NL}
ContentArgs == SeqsUpTo(ContentChars, MaxLen)
TitleArgs == {None, Some(<<>>), Some(<<"T">>), Some(<<"T", "i", "t", "l", "e">>)}
WidthArgs == {NoInt} \cup {Some(w) : w \in 0..MaxWidth}
\* Values of config.width: the default, and a narrow page.
PageWidths == {DefaultWidth, MaxWidth}

IsSpace(c) == c \in {" ", NL}

\* s.strip(): leading and trailing whitespace removed.
RECURSIVE Strip(_)
Strip(s) ==
    IF s = <<>> THEN s
    ELSE IF IsSpace(Head(s)) THEN Strip(Tail(s))
    ELSE IF IsSpace(s[Len(s)]) THEN Strip(SubSeq(s, 1, Len(s) - 1))
    ELSE s

\* The concatenation of a list of lists.
RECURSIVE Flatten(_)
Flatten(ls) == IF ls = <<>> THEN <<>> ELSE Head(ls) \o Flatten(Tail(ls))

\* The words of a line: its maximal runs of non-space characters.
Words(line) == SelectSeq(Split(line, " "), LAMBDA w : w # <<>>)

\* Greedy line fill: a word joins the current line if it fits after one
\* space, otherwise starts the next line; a word longer than the width is
\* broken at the width.
RECURSIVE Fill(_, _, _)
Fill(words, cur, width) ==
    IF words = <<>> THEN (IF cur = <<>> THEN <<>> ELSE <<cur>>)
    ELSE LET word == Head(words)
         IN  IF cur = <<>>
             THEN IF Len(word) <= width THEN Fill(Tail(words), word, width)
                  ELSE <<SubSeq(word, 1, width)>>
                         \o Fill(<<SubSeq(word, width + 1, Len(word))>> \o Tail(words),
                                 <<>>, width)
             ELSE IF Len(cur) + 1 + Len(word) <= width
                  THEN Fill(Tail(words), cur \o <<" ">> \o word, width)
                  ELSE <<cur>> \o Fill(words, <<>>, width)

\* wrap(text, width): the lines of text, none longer than width; nothing
\* for a width in which no character fits.
wrap(text, width) == IF width <= 0 THEN <<>> ELSE Fill(Words(text), <<>>, width)

\* `if title:` is false for None and for the empty string.
HasTitle(title) == title.given /\ title.val # <<>>

\* wrapped_lines: the lines of the stripped content, each wrapped if it is
\* longer than width - 4.
WrappedLines(content, inner_width) ==
    LET lines == Split(Strip(content), NL)
    IN  Flatten([k \in DOMAIN lines |->
                    IF Len(lines[k]) > inner_width
                    THEN wrap(lines[k], inner_width) ELSE <<lines[k]>>])

\* Variant: the page width wins over the argument (config.width or width).
EffectiveWidth_PageFirst(width, cfg) == IF cfg # 0 THEN cfg ELSE width.val

\* width = width or config.width
EffectiveWidth(width, cfg) == IF width.given /\ width.val # 0 THEN width.val ELSE cfg

\* box_width: the width when `width and width > 0`, otherwise the longest
\* wrapped line (or the title and its two spaces) plus 4.
BoxWidth(wrapped_lines, title, width) ==
    IF width # 0 /\ width > 0 THEN width
    ELSE LET max_line_width ==
                 Max({0} \cup {Len(wrapped_lines[k]) : k \in DOMAIN wrapped_lines})
         IN  (IF HasTitle(title) /\ Len(title.val) + 2 > max_line_width
              THEN Len(title.val) + 2 ELSE max_line_width) + 4

\* The top border: with a title, two dashes, the title between spaces, and
\* inner_width - len(title) - 2 dashes.
TopBorder(title, box_width) ==
    LET inner_width == box_width - 4
        padding == inner_width - Len(title.val) - 2
    IN  IF HasTitle(title)
        THEN <<"+">> \o Rep("-", 2) \o <<" ">> \o title.val \o <<" ">>
                    \o Rep("-", padding - 2 + 2) \o <<"+">>
        ELSE <<"+">> \o Rep("-", box_width - 2) \o <<"+">>

\* Variant: a content line is not padded.
ContentLine_NoPad(line, inner_width) == <<"|", " ">> \o line \o <<" ", "|">>

\* f"| {line}{' ' * padding} |"
ContentLine(line, inner_width) ==
    <<"|", " ">> \o line \o Rep(" ", inner_width - Len(line)) \o <<" ", "|">>

\* box(content, title=None, width=None), with config.width at cfg.
box(content, title, width, cfg) ==
    LET width1 == EffectiveWidth(width, cfg)
        wrapped_lines == WrappedLines(content, width1 - 4)
        box_width == BoxWidth(wrapped_lines, title, width1)
    IN  Join(<<TopBorder(title, box_width)>>
             \o [k \in DOMAIN wrapped_lines |->
                    ContentLine(wrapped_lines[k], box_width - 4)]
             \o <<<<"+">> \o Rep("-", box_width - 2) \o <<"+">>>>,
             <<NL>>)

\* Calls of box; config.width varies where box reads it.
BoxCalls ==
    {RenderCall("box", DefaultWidth, [content |-> content, title |-> title, width |-> width]) :
        content \in ContentArgs, title \in TitleArgs, width \in WidthArgs}
    \cup {RenderCall("box", MaxWidth, [content |-> content, title |-> title, width |-> width]) :
            content \in ContentArgs, title \in TitleArgs, width \in {NoInt, Some(0)}}

Box ==
    /\ render.fn = "box" /\ ~render.done
    /\ render' = [render EXCEPT !.done = TRUE,
                                !.out = box(render.args.content, render.args.title,
                                            render.args.width, render.cfg)]
    /\ UNCHANGED <<apps, regHeap, mcpHeap, stateHeap, nsHeap, ncalls, last>>

\* ----------------------------------------------------------------- glyphs
\* ICONS: the glyph table shared by list_display and tree.  The tree glyphs
\* are drawn as in tree's docstring, the corner of the last child as "+".
ICONS ==
    [bullet |-> <<"*", " ">>, arrow |-> <<">", " ">>, dash |-> <<"-", " ">>,
     check |-> <<"v", " ">>, uncheck |-> <<"x", " ">>,
     tree_branch |-> <<"|", "-", "-", " ">>, tree_last |-> <<"+", "-", "-", " ">>,
     tree_pipe |-> <<"|", " ", " ", " ">>, tree_space |-> <<" ", " ", " ", " ">>]

\* ICONS.get(style, ICONS["bullet"])
IconGet(style) == IF style \in DOMAIN ICONS THEN ICONS[style] ELSE ICONS["bullet"]

\* ----------------------------------------------------------- list_display
ItemTexts == {<<"x">>, <<"y", "z">>}
ItemArgs == SeqsUpTo(ItemTexts, 2) \cup {[i \in 1..n |-> <<"x">>] : n \in 0..MaxItems}
\* The five styles list_display documents, a name that is no style, and a
\* name of the glyph table that is not a list style.
Styles == {"bullet", "arrow", "dash", "check", "uncheck"}
StyleArgs == Styles \cup {"star", "tree_branch"}

\* s.rjust(w)
rjust(s, w) == Rep(" ", w - Len(s)) \o s

\* Variant: the index is not aligned.
NumberField_NoAlign(i, width) == StrInt(i)

\* f"{i + 1:>{width}}" for the item at 1-based position i.
NumberField(i, width) == rjust(StrInt(i), width)

\* list_display(items, style="bullet", numbered=False)
list_display(items, style, numbered) ==
    IF items = <<>> THEN <<>>
    ELSE IF numbered
    THEN LET width == Len(StrInt(Len(items)))
         IN  Join([i \in DOMAIN items |->
                      NumberField(i, width) \o <<".", " ">> \o items[i]], <<NL>>)
    ELSE LET prefix == IconGet(style)
         IN  Join([i \in DOMAIN items |-> prefix \o items[i]], <<NL>>)

ListCalls ==
    {RenderCall("list_display", DefaultWidth,
                [items |-> items, style |-> style, numbered |-> numbered]) :
        items \in ItemArgs, style \in StyleArgs, numbered \in BOOLEAN}

ListDisplay ==
    /\ render.fn = "list_display" /\ ~render.done
    /\ render' = [render EXCEPT !.done = TRUE,
                                !.out = list_display(render.args.items, render.args.style,
                                                     render.args.numbered)]
    /\ UNCHANGED <<apps, regHeap, mcpHeap, stateHeap, nsHeap, ncalls, last>>

\* ------------------------------------------------------------------- tree
\* A value of a mapping: a scalar (an int), a list of strings, or a mapping.
\* A mapping is the sequence of its (key, value) items in insertion order;
\* a list is a sequence of items that have a text and no value.
NoValue == [tag |-> "none", val |-> 0, items |-> <<>>]
Scalar(n) == [tag |-> "scalar", val |-> n, items |-> <<>>]
ListValue(texts) ==
    [tag |-> "list", val |-> 0,
     items |-> [j \in DOMAIN texts |-> [key |-> texts[j], value |-> NoValue]]]
DictValue(items) == [tag |-> "dict", val |-> 0, items |-> items]

KeyNames == <<"a", "b", "c", "d">>
\* The mappings of at most MaxKeys keys with values in V; past the second
\* key the values repeat those of the first two.
Dicts(V) ==
    {[i \in 1..n |-> [key |-> <<KeyNames[i]>>, value |-> IF i % 2 = 1 THEN v1 ELSE v2]] :
        n \in 0..MaxKeys, v1 \in V, v2 \in V}
Leaves == {Scalar(1), ListValue(<<<<"x">>, <<"y">>>>)}
Level1 == Dicts(Leaves)
Level2 == Dicts(Leaves \cup {DictValue(d) : d \in Level1})
\* Mappings three deep: one of Level2 under a last key, and under a key
\* that has a sibling after it.
Level3 ==
    {<<[key |-> <<"r">>, value |-> DictValue(d)]>> : d \in Level2}
    \cup {<<[key |-> <<"r">>, value |-> DictValue(d)],
            [key |-> <<"s">>, value |-> Scalar(1)]>> : d \in Level2}
\* {"a": {"b": 1}}
ExampleTree ==
    <<[key |-> <<"a">>, value |-> DictValue(<<[key |-> <<"b">>, value |-> Scalar(1)]>>)]>>
DataArgs == Level2 \cup Level3 \cup {ExampleTree}

\* Variant: the descendants of a last sibling get the pipe too.
NewPrefix_AlwaysPipe(prefix, is_last) == prefix \o ICONS["tree_pipe"]

\* new_prefix: the prefix for what is below an item.
NewPrefix(prefix, is_last) ==
    IF prefix # <<>>
    THEN (IF is_last THEN prefix \o ICONS["tree_space"] ELSE prefix \o ICONS["tree_pipe"])
    ELSE (IF is_last THEN ICONS["tree_space"] ELSE ICONS["tree_pipe"])

\* The line appended for a key.
KeyLine(prefix, is_last, key) ==
    IF prefix # <<>>
    THEN (IF is_last THEN prefix \o ICONS["tree_last"] \o key
          ELSE prefix \o ICONS["tree_branch"] \o key)
    ELSE key

\* Variant: a simple value gets a line of its own.
WithScalar_NewLine(lines, value) == Append(lines, <<":", " ">> \o StrInt(value.val))

\* lines[-1] = lines[-1] + ": " + str(value)
WithScalar(lines, value) ==
    [lines EXCEPT ![Len(lines)] = @ \o <<":", " ">> \o StrInt(value.val)]

\* tree(data, _prefix=""): per item the key's line, then the lines of a
\* nested mapping, or one line per list element, or the value inline.
RECURSIVE tree(_, _)
tree(data, prefix) ==
    LET ItemLines(i) ==
            LET is_last == i = Len(data)
                value == data[i].value
                lines == <<KeyLine(prefix, is_last, data[i].key)>>
                new_prefix == NewPrefix(prefix, is_last)
            IN  CASE value.tag = "dict" ->
                       LET subtree == tree(value.items, new_prefix)
                       IN  IF subtree # <<>> THEN lines \o Split(subtree, NL) ELSE lines
                  [] value.tag = "list" ->
                       lines \o [j \in DOMAIN value.items |->
                                    IF j = Len(value.items)
                                    THEN new_prefix \o ICONS["tree_last"] \o value.items[j].key
                                    ELSE new_prefix \o ICONS["tree_branch"] \o value.items[j].key]
                  [] OTHER -> WithScalar(lines, value)
    IN  Join(Flatten([i \in DOMAIN data |-> ItemLines(i)]), <<NL>>)

TreeCalls == {RenderCall("tree", DefaultWidth, [data |-> data]) : data \in DataArgs}

Tree ==
    /\ render.fn = "tree" /\ ~render.done
    /\ render' = [render EXCEPT !.done = TRUE, !.out = tree(render.args.data, <<>>)]
    /\ UNCHANGED <<apps, regHeap, mcpHeap, stateHeap, nsHeap, ncalls, last>>

\* ------------------------------------------------------- renderer runs
\* A run of one renderer call: the arguments are drawn at the start and the
\* renderer is applied to them.
InitRender ==
    /\ InitApp("None", "text")
    /\ render \in TableCalls \cup BoxCalls \cup ListCalls \cup TreeCalls

NextRender ==
    \/ Table
    \/ Box
    \/ ListDisplay
    \/ Tree

SpecRender == InitRender /\ [][NextRender]_vars

\* --------------------------------------------------- repeated renders
\* A run of two calls of one renderer with the same arguments, config.width
\* being assigned in between.
AgainCalls ==
    {RenderCall("table", DefaultWidth, [rows |-> rows, headers |-> headers]) :
        rows \in SeqsUpTo(SeqsUpTo(CellValues, 1), MaxRows),
        headers \in {None, Some(<<<<"h">>>>)}}
    \cup {RenderCall("box", cfg, [content |-> content, title |-> title, width |-> width]) :
            cfg \in PageWidths, content \in SeqsUpTo({"a", " "}, MaxLen),
            title \in {None, Some(<<"T">>)}, width \in WidthArgs}
    \cup ListCalls
    \cup {RenderCall("tree", DefaultWidth, [data |-> data]) : data \in Level1 \cup {ExampleTree}}

\* The renderer fn applied to args while config.width is cfg.
Rendered(fn, args, cfg) ==
    CASE fn = "table" -> table(args.rows, args.headers)
      [] fn = "box" -> box(args.content, args.title, args.width, cfg)
      [] fn = "list_display" -> list_display(args.items, args.style, args.numbered)
      [] fn = "tree" -> tree(args.data, <<>>)

\* config.width = w
SetWidth(w) ==
    /\ render.done /\ ~render.again
    /\ render' = [render EXCEPT !.cfg2 = w]
    /\ UNCHANGED <<apps, regHeap, mcpHeap, stateHeap, nsHeap, ncalls, last>>

\* The second call, with the arguments of the first.
Again ==
    /\ render.done /\ ~render.again
    /\ render' = [render EXCEPT !.again = TRUE,
                                !.out2 = Rendered(render.fn, render.args, render.cfg2)]
    /\ UNCHANGED <<apps, regHeap, mcpHeap, stateHeap, nsHeap, ncalls, last>>

InitAgain ==
    /\ InitApp("None", "text")
    /\ render \in AgainCalls

NextAgain ==
    \/ Table
    \/ Box
    \/ ListDisplay
    \/ Tree
    \/ \E w \in PageWidths : SetWidth(w)
    \/ Again

SpecAgain == InitAgain /\ [][NextAgain]_vars

\* ------------------------------------------------------- tool components
\* fastmcp= arguments of App.command: None, {}, the three component types,
\* {"enabled": False}, a disabled tool, and a type that is none of the three.
FastMCPConfigs ==
    {NoFastMCP, FastMCP("absent", "absent"),
     FastMCP("tool", "absent"), FastMCP("resource", "true"), FastMCP("prompt", "absent"),
     FastMCP("absent", "false"), FastMCP("tool", "false"), FastMCP("widget", "absent")}

\* An application whose commands are registered for tool serving.
InitMcp ==
    /\ InitApp("Plain", "text")
    /\ render = NoRenderCall

NextMcp ==
    \/ \E a \in AppIds, n \in {"f", "g"}, al \in AliasLists, fm \in FastMCPConfigs :
          n \notin Range(al) /\ CommandFastMCP(a, n, al, fm)
    \/ \E a \in AppIds, n \in {"f", "g"} : Execute(a, n, <<>>)
    \/ \E a \in AppIds : Using(a, "json")

SpecMcp == InitMcp /\ [][NextMcp]_vars

\* ================================================================= claims
\* The facade the application was constructed as; the others are its views.
RootApp == Head(apps)
IsView(a) == a > 1
HasStateType == RootApp.state_class # "None"
IsExecute == last.op = "execute"

\* C1: a facade constructed with a state type and all its views (views of
\* views too) hold one and the same state instance; every execute passes
\* that instance to the operation, so the value an operation reads or writes
\* through any facade is the value the others see.
C1_SharedState ==
    HasStateType =>
        /\ \A a \in AppIds : apps[a].state = RootApp.state /\ apps[a].state # 0
        /\ (IsExecute /\ last.calls = 1) =>
              /\ last.passed = RootApp.state
              /\ (last.outcome = "ok" /\ last.pair.func.body \in {"inc", "get"}) =>
                    last.result.val = stateHeap[RootApp.state].val

\* C1 witness: a command executed through a view observes a counter that
\* was already mutated before, while a second state instance exists.
C1_Witness ==
    /\ IsExecute /\ IsView(last.app) /\ last.outcome = "ok"
    /\ last.pair.func.body = "inc" /\ last.result.val = 2
    /\ Len(stateHeap) >= 2

\* C2: execute of a name the facade's registry has no entry for raises the
\* lookup error: no operation is invoked and no rendered value is returned.
C2_UnknownRaises ==
    (IsExecute /\ last.name \notin Keys(RegOf(last.app))) =>
        /\ last.outcome = "ValueError"
        /\ last.calls = 0
        /\ last.rendered = NoRender

\* C2 witness: the error raised through a view whose registry is not empty
\* (a bind has synthesized help).
C2_Witness ==
    /\ IsExecute /\ last.outcome = "ValueError" /\ IsView(last.app)
    /\ "help" \in Keys(RegOf(last.app))

\* C3 (as claimed): every alias listed in a stored command's meta resolves
\* to the very pair its primary name resolves to.
C3_AliasesFollowPrimary ==
    \A a \in AppIds :
        LET d == RegOf(a)
        IN  \A k \in Keys(d) :
                \A al \in Range(d.map[k].meta.aliases) :
                    /\ al \in Keys(d)
                    /\ d.map[k].func.name \in Keys(d)
                    /\ d.map[al] = d.map[d.map[k].func.name]

\* C4 (as claimed): once a name resolves to a pair, no later call changes
\* the pair it resolves to.
C4_RegisteredPairImmutable ==
    [][\A r \in DOMAIN regHeap :
          \A k \in Keys(regHeap[r]) :
              /\ k \in Keys(regHeap'[r])
              /\ regHeap'[r].map[k] = regHeap[r].map[k]]_vars

\* C5 (as claimed): list_commands holds the primary name of every command
\* registered through command() and none of the names listed as an alias.
C5_ListCommandsPrimaryOnly ==
    \A a \in AppIds :
        LET d == RegOf(a)
            lc == Range(list_commands(a))
        IN  \A k \in Keys(d) :
                /\ d.map[k].func.name \in FuncNames => d.map[k].func.name \in lc
                /\ \A al \in Range(d.map[k].meta.aliases) : al \notin lc

\* C6: execute of a registered name invokes the pair stored under that name
\* exactly once, passes the shared state instance if and only if the
\* application was constructed with a state type, and returns the facade's
\* serializer applied to the result and that pair's meta (nothing when the
\* operation raised).
C6_ExecuteDispatch ==
    (IsExecute /\ last.name \in Keys(RegOf(last.app))) =>
        LET pair == RegOf(last.app).map[last.name]
        IN  /\ last.calls = 1
            /\ last.pair = pair
            /\ (last.passed # 0) <=> HasStateType
            /\ last.passed # 0 => last.passed = apps[last.app].state
            /\ last.outcome \in {"ok", "TypeError", "RuntimeError"}
            /\ last.outcome = "ok" =>
                  last.rendered = Serialize(apps[last.app].serializer, last.result, pair.meta)
            /\ last.outcome # "ok" => last.rendered = NoRender

\* C6 witness: a view that was itself built without a state type (the state
\* was falsy when using ran) still passes the shared instance.
C6_Witness ==
    /\ IsExecute /\ last.outcome = "ok" /\ last.calls = 1
    /\ IsView(last.app) /\ apps[last.app].state_class = "None"
    /\ last.passed # 0 /\ last.rendered.display = "table"

\* C7: a facade and its views hold the same registry dict: their
\* list_commands agree in every state, and a name registered through either
\* (or the help a bind synthesized) is never unknown to the other.
C7_SharedRegistry ==
    /\ \A a, b \in AppIds :
          /\ apps[a].commands = apps[b].commands
          /\ list_commands(a) = list_commands(b)
    /\ (IsExecute /\ \E a \in AppIds : last.name \in Keys(RegOf(a))) =>
          last.outcome # "ValueError"

\* C7 witness: a command registered through a view after the view was
\* created is listed by the original facade.
C7_Witness ==
    /\ last.op = "command" /\ IsView(last.app)
    /\ last.name \in Range(ListCommandsOf(regHeap[RootApp.commands]))

\* C8: no call changes an existing facade's serializer, state reference or
\* registry reference; using leaves every registry and state instance as it
\* was and gives the new view the given serializer with the original's state
\* and registry; every execute renders with the serializer of the facade it
\* went through.
C8_UsingFrame ==
    /\ [][\A a \in DOMAIN apps : a \in DOMAIN apps' /\ apps'[a] = apps[a]]_vars
    /\ [][Len(apps') # Len(apps) =>
            /\ Len(apps') = Len(apps) + 1
            /\ \A r \in DOMAIN regHeap : regHeap'[r] = regHeap[r]
            /\ \A i \in DOMAIN stateHeap : stateHeap'[i] = stateHeap[i]
            /\ nsHeap' = nsHeap
            /\ last'.op = "using"
            /\ apps'[Len(apps')].serializer = last'.ser
            /\ apps'[Len(apps')].state = apps[last'.app].state
            /\ apps'[Len(apps')].commands = apps[last'.app].commands]_vars
    /\ []((IsExecute /\ last.outcome = "ok") =>
            last.rendered = Serialize(apps[last.app].serializer, last.result, last.pair.meta))

\* C8 witness: an execute through a view rendered with the view's serializer
\* while the original facade still has its own.
C8_Witness ==
    /\ IsExecute /\ last.outcome = "ok" /\ IsView(last.app)
    /\ apps[last.app].serializer = "json" /\ last.rendered.kind = "json"
    /\ RootApp.serializer = "text"

\* C9 (as claimed): the state type is instantiated once, at construction,
\* and never again.
C9_SingleInstantiation ==
    Len(stateHeap) = IF HasStateType THEN 1 ELSE 0

\* C10 (as claimed): after every bind on a facade with no explicit help
\* command, the namespace holds the help callable and help is registered.
C10_BindProvidesHelp ==
    last.op = "bind" =>
        /\ "help" \in Keys(RegOf(last.app))
        /\ RegOf(last.app).map["help"].func.name = "help_command" =>
              /\ "help" \in DOMAIN nsHeap[last.ns]
              /\ nsHeap[last.ns]["help"].kind = "help_wrapper"

IsCall == last.op = "call"
StrategyOf(a) == apps[a].serializer

\* C11 (as claimed): a callable bound by bind runs execute for its command
\* with the caller's arguments, then prints the rendered result when the
\* facade's strategy is text, and returns the raw rendered value to the
\* caller when the strategy is passthrough.
C11_BoundCallable ==
    (IsCall /\ last.outcome = "ok") =>
        /\ last.calls = 1
        /\ last.rendered = Serialize(StrategyOf(last.app), last.result, last.pair.meta)
        /\ (StrategyOf(last.app) = "text" => last.printed = last.rendered)
        /\ (StrategyOf(last.app) = "passthrough" => last.returned = last.rendered)

\* C11 (amended): a callable bound by bind runs execute for its command with
\* the caller's arguments, prints the rendered result whatever the strategy
\* (text, JSON or passthrough), and returns None to the caller.
C11_BoundCallablePrints ==
    (IsCall /\ last.outcome = "ok") =>
        /\ last.calls = 1
        /\ last.pair = RegOf(last.app).map[last.name]
        /\ last.rendered = Serialize(StrategyOf(last.app), last.result, last.pair.meta)
        /\ last.printed = last.rendered
        /\ last.returned = NoRender

\* C11 witness: a callable bound from a passthrough view has been called and
\* has printed the raw value.
C11_Witness ==
    /\ IsCall /\ last.outcome = "ok" /\ IsView(last.app)
    /\ StrategyOf(last.app) = "passthrough"
    /\ last.printed.kind = "raw" /\ last.returned = NoRender

\* C12: execute swallows no error. When the operation fails the strategy is
\* not called and the failure reaches the caller; when the strategy fails
\* that failure reaches the caller; either way execute returns no value; and
\* what the operation did to the state before failing stays done.
C12_ErrorsPropagate ==
    /\ []((last.op \in {"execute", "call"} /\ last.calls = 1
            /\ last.pair.func.body = "inc" /\ last.args # <<>>) =>
              /\ last.outcome = "RuntimeError"
              /\ last.sercalls = 0
              /\ last.rendered = NoRender /\ last.returned = NoRender)
    /\ []((last.op \in {"execute", "call"} /\ last.sercalls = 1
            /\ StrategyOf(last.app) = "json" /\ last.result = ObjResult) =>
              /\ last.outcome = "TypeError"
              /\ last.rendered = NoRender /\ last.returned = NoRender)
    /\ [][(last'.op \in {"execute", "call"} /\ last'.outcome = "RuntimeError"
            /\ last'.passed # 0) =>
              stateHeap'[last'.passed].val = stateHeap[last'.passed].val + 1]_vars

\* C12 witness: an operation has failed after mutating the shared state, and
\* the mutation is in the state.
C12_Witness ==
    /\ IsExecute /\ last.outcome = "RuntimeError" /\ last.sercalls = 0
    /\ last.passed # 0 /\ stateHeap[last.passed].val = 2

\* C13: execute through a facade whose strategy is passthrough returns
\* exactly the value the operation returned, whatever the command and its
\* meta.
C13_PassthroughIdentity ==
    (IsExecute /\ last.calls = 1 /\ last.outcome = "ok"
       /\ StrategyOf(last.app) = "passthrough") =>
        /\ last.rendered.kind = "raw"
        /\ last.rendered.data = last.result
        /\ \A dp \in Displays, al \in AliasLists :
              Serialize("passthrough", last.result, CommandMeta(dp, al, 0)).data = last.result

\* C13 witness: a command displayed as a table has been executed through a
\* passthrough view and came back as the rows the operation returned.
C13_Witness ==
    /\ IsExecute /\ last.outcome = "ok" /\ StrategyOf(last.app) = "passthrough"
    /\ last.pair.meta.display = "table" /\ last.result.tag = "rows"
    /\ last.rendered.data = last.result

\* C14: the JSON strategy ignores meta: the output of a command executed
\* through a JSON facade is the output under any other display kind and
\* alias list, and under the meta of every other registered name.
C14_JsonIgnoresMeta ==
    (last.op \in {"execute", "call"} /\ last.sercalls = 1
       /\ StrategyOf(last.app) = "json") =>
        LET out == IF last.outcome = "ok" THEN last.rendered ELSE SerializeError
        IN  /\ \A dp \in Displays, al \in AliasLists :
                  Serialize("json", last.result, CommandMeta(dp, al, 0)) = out
            /\ \A k \in Keys(RegOf(last.app)) :
                  Serialize("json", last.result, RegOf(last.app).map[k].meta) = out

\* C14 witness: a command registered with a table display and an alias has
\* been executed by its alias through a JSON view.
C14_Witness ==
    /\ IsExecute /\ last.outcome = "ok" /\ StrategyOf(last.app) = "json"
    /\ last.pair.meta.display = "table" /\ last.pair.meta.aliases # <<>>
    /\ last.name # last.pair.func.name /\ last.rendered.kind = "json"

\* ------------------------------------------------------- table: claims
IsTable == render.fn = "table" /\ render.done
ArgRows == render.args.rows
ArgHeaders == render.args.headers
\* The lines of the rendered text.
OutLines == Split(render.out, NL)

\* Where column i starts in a line laid out with the widths w and two-space
\* gaps, the text of that column, and the gap after it.
RECURSIVE Offset(_, _)
Offset(w, i) == IF i = 1 THEN 0 ELSE Offset(w, i - 1) + w[i - 1] + 2
Column(line, w, i) == SubSeq(line, Offset(w, i) + 1, Offset(w, i) + w[i])
Gap(line, w, i) == SubSeq(line, Offset(w, i) + w[i] + 1, Offset(w, i) + w[i] + 2)
\* The line has exactly n columns of the widths w.
HasColumns(line, w, n) ==
    /\ Len(line) = IF n = 0 THEN 0 ELSE Offset(w, n) + w[n]
    /\ \A i \in 1..(n - 1) : Gap(line, w, i) = <<" ", " ">>

\* The longest text of the i-th cell over the rows that have one.
CellWidth(i) ==
    Max({0} \cup {Len(Str(ArgRows[r][i])) :
                    r \in {q \in DOMAIN ArgRows : i <= Len(ArgRows[q])}})
HeaderWidth(i) == Max({Len(ArgHeaders.val[i]), CellWidth(i)})
\* The text of cell i of row r, empty when the row has no such cell.
CellText(r, i) == IF i <= Len(ArgRows[r]) THEN Str(ArgRows[r][i]) ELSE <<>>

\* Every line has the n = len(H) columns; short rows are padded with empty
\* cells; a cell's text fits its column; and the cells beyond n change
\* nothing in the output.
TableHasHeaderColumns ==
    LET n == Len(ArgHeaders.val)
        w == [i \in 1..n |-> HeaderWidth(i)]
        lines == OutLines
    IN  /\ Len(lines) = Len(ArgRows) + 2
        /\ \A k \in DOMAIN lines : HasColumns(lines[k], w, n)
        /\ \A r \in DOMAIN ArgRows : \A i \in 1..n :
              /\ Len(CellText(r, i)) <= w[i]
              /\ Column(lines[r + 2], w, i) = ljust(CellText(r, i), w[i])
        /\ render.out =
              table([r \in DOMAIN ArgRows |->
                        SubSeq(ArgRows[r], 1, IF Len(ArgRows[r]) < n
                                              THEN Len(ArgRows[r]) ELSE n)],
                    ArgHeaders)

\* C15 (as claimed): for non-empty rows R and every header list H, every
\* line of table(R, H) has exactly len(H) columns: short rows are padded
\* with empty cells, long rows are cut silently, and every cell's text is at
\* most as long as its column is wide.
C15_HeaderColumns ==
    (IsTable /\ ArgRows # <<>> /\ ArgHeaders.given) => TableHasHeaderColumns

\* C15 (amended): the same for every non-empty header list H; an empty
\* header list is rendered as no headers at all.
C15_NonEmptyHeaderColumns ==
    /\ (IsTable /\ ArgRows # <<>> /\ ArgHeaders.given /\ ArgHeaders.val # <<>>) =>
          TableHasHeaderColumns
    /\ (IsTable /\ ArgHeaders.given /\ ArgHeaders.val = <<>>) =>
          render.out = table(ArgRows, None)

\* C15 witness: a table with one header and two rows, one longer than the
\* header list and one empty.
C15_Witness ==
    /\ IsTable /\ HasHeaders(ArgHeaders) /\ Len(ArgHeaders.val) = 1
    /\ Len(ArgRows) = 2 /\ Len(ArgRows[1]) = 2 /\ Len(ArgRows[2]) = 0
    /\ Len(OutLines) = 4

\* C16: table([], H) is the empty string for every header list H, and so is
\* table([], None).
C16_EmptyRows ==
    (IsTable /\ ArgRows = <<>>) => render.out = <<>>

\* C16 witness: a table of no rows under two headers.
C16_Witness ==
    /\ IsTable /\ ArgRows = <<>> /\ ArgHeaders.given /\ Len(ArgHeaders.val) = 2
    /\ render.out = <<>>

\* C17: without headers there is no header line and no dash rule, the
\* column count is the longest row's length, and a row of k cells yields a
\* line of exactly k columns, each cell left-justified to its column width.
C17_NoHeaders ==
    (IsTable /\ ArgRows # <<>> /\ ~ArgHeaders.given) =>
        LET n == Max({Len(ArgRows[r]) : r \in DOMAIN ArgRows})
            w == [i \in 1..n |-> CellWidth(i)]
            lines == OutLines
        IN  /\ Len(lines) = Len(ArgRows)
            /\ \A r \in DOMAIN ArgRows :
                  /\ HasColumns(lines[r], w, Len(ArgRows[r]))
                  /\ \A i \in 1..Len(ArgRows[r]) :
                        Column(lines[r], w, i) = ljust(Str(ArgRows[r][i]), w[i])

\* C17 witness: a headerless table whose second row is shorter than its
\* first and whose first column holds cells of different lengths.
C17_Witness ==
    /\ IsTable /\ ~ArgHeaders.given /\ Len(ArgRows) = 2
    /\ Len(ArgRows[1]) = 2 /\ Len(ArgRows[2]) = 1
    /\ Len(Str(ArgRows[1][1])) > Len(Str(ArgRows[2][1]))
    /\ Len(OutLines[2]) < Len(OutLines[1])

IsBox == render.fn = "box" /\ render.done
ArgContent == render.args.content
ArgTitle == render.args.title
ArgWidth == render.args.width

\* C19: for every content S and width W >= 4, the top border, every content
\* line and the bottom border of box(S, width=W) are exactly W long, also
\* when lines or single words of S are longer than W - 4.
C19_Rectangular ==
    (IsBox /\ ArgWidth.given /\ ArgWidth.val >= 4 /\ ~HasTitle(ArgTitle)) =>
        LET lines == OutLines
        IN  /\ Len(lines) >= 2
            /\ \A k \in DOMAIN lines : Len(lines[k]) = ArgWidth.val

\* C19 witness: a box of width 5 around one word of three characters, which
\* is broken over three content lines.
C19_Witness ==
    /\ IsBox /\ ArgWidth = Some(5) /\ ~ArgTitle.given
    /\ ArgContent = <<"a", "a", "a">>
    /\ Len(OutLines) = 5 /\ OutLines[2] = <<"|", " ", "a", " ", "|">>

\* C20 (as claimed): when width is omitted the box is as wide as its longest
\* wrapped line, or as the title plus 2 if that is more, plus 4, and not as
\* wide as the page.
C20_AutoSize ==
    (IsBox /\ ~ArgWidth.given) =>
        LET wrapped == WrappedLines(ArgContent, render.cfg - 4)
            longest == Max({0} \cup {Len(wrapped[k]) : k \in DOMAIN wrapped})
            fit == IF HasTitle(ArgTitle) /\ Len(ArgTitle.val) + 2 > longest
                   THEN Len(ArgTitle.val) + 2 ELSE longest
            lines == OutLines
        IN  \A k \in DOMAIN lines : Len(lines[k]) = fit + 4

\* C20 witness: a box drawn without a width around one character under the
\* default page width, whose lines are as long as the page is wide.
C20_Witness ==
    /\ IsBox /\ ~ArgWidth.given /\ ArgContent = <<"a">> /\ ~ArgTitle.given
    /\ render.cfg = DefaultWidth
    /\ \A k \in DOMAIN OutLines : Len(OutLines[k]) = DefaultWidth

\* C21 (as claimed): for every title T and width W, the top border of
\* box(S, title=T, width=W) is '+', two dashes, ' T ', dashes for the rest
\* and '+', and is as long as the bottom border and every content line.
C21_TitleBorder ==
    (IsBox /\ HasTitle(ArgTitle) /\ ArgWidth.given /\ ArgWidth.val >= 4) =>
        LET top == OutLines[1]
            t == Len(ArgTitle.val)
        IN  /\ SubSeq(top, 1, t + 5) = <<"+", "-", "-", " ">> \o ArgTitle.val \o <<" ">>
            /\ top[Len(top)] = "+"
            /\ \A i \in (t + 6)..(Len(top) - 1) : top[i] = "-"
            /\ LET lines == OutLines
               IN  \A k \in DOMAIN lines : Len(lines[k]) = Len(top)

\* C21 witness: a box of width 7 under a title of five characters: the top
\* border is 11 long, the content line and the bottom border 7.
C21_Witness ==
    /\ IsBox /\ ArgWidth = Some(7) /\ ArgTitle = Some(<<"T", "i", "t", "l", "e">>)
    /\ ArgContent = <<"a">> /\ Len(OutLines) = 3
    /\ Len(OutLines[1]) = 11 /\ Len(OutLines[2]) = 7 /\ Len(OutLines[3]) = 7

\* -------------------------------------------------------- list: claims
IsList == render.fn = "list_display" /\ render.done
ArgItems == render.args.items

\* C24: a numbered list has one line per item in input order; line k is the
\* index k right-aligned in as many columns as len(items) has digits, then
\* '. ' (at the same column on every line), then the item; no items give
\* the empty string.
C24_NumberedList ==
    (IsList /\ render.args.numbered) =>
        IF ArgItems = <<>> THEN render.out = <<>>
        ELSE LET digits == Len(StrInt(Len(ArgItems)))
                 lines == OutLines
             IN  /\ Len(lines) = Len(ArgItems)
                 /\ \A k \in DOMAIN ArgItems :
                       /\ SubSeq(lines[k], 1, digits) =
                             Rep(" ", digits - Len(StrInt(k))) \o StrInt(k)
                       /\ SubSeq(lines[k], digits + 1, digits + 2) = <<".", " ">>
                       /\ SubSeq(lines[k], digits + 3, Len(lines[k])) = ArgItems[k]

\* C24 witness: a numbered list of ten items, whose first line starts with
\* a space and whose last line starts with "10".
C24_Witness ==
    /\ IsList /\ render.args.numbered /\ Len(ArgItems) = 10
    /\ OutLines[1] = <<" ", "1", ".", " ", "x">>
    /\ OutLines[10] = <<"1", "0", ".", " ", "x">>

\* C25 (as claimed): in a list that is not numbered every item is prefixed
\* with the glyph of the given style, and every name that is not one of the
\* styles renders exactly as style 'bullet'.
C25_StyleGlyph ==
    (IsList /\ ~render.args.numbered /\ ArgItems # <<>>) =>
        /\ Len(OutLines) = Len(ArgItems)
        /\ render.args.style \in Styles =>
              \A k \in DOMAIN ArgItems :
                  OutLines[k] = ICONS[render.args.style] \o ArgItems[k]
        /\ render.args.style \notin Styles =>
              render.out = list_display(ArgItems, "bullet", FALSE)

\* C25 witness: a list rendered with the style name 'tree_branch', whose
\* items carry the tree's branch glyph and not the bullet.
C25_Witness ==
    /\ IsList /\ ~render.args.numbered /\ render.args.style = "tree_branch"
    /\ ArgItems = <<<<"x">>>>
    /\ render.out = ICONS["tree_branch"] \o <<"x">>
    /\ render.out # list_display(ArgItems, "bullet", FALSE)

\* -------------------------------------------------------- tree: claims
IsTree == render.fn = "tree" /\ render.done
ArgData == render.args.data

\* The text of an item's own line after its glyph: the key, and a simple
\* value inline.
Label(item) ==
    item.key \o (IF item.value.tag = "scalar"
                 THEN <<":", " ">> \o StrInt(item.value.val) ELSE <<>>)

\* The lines the drawing rule gives for siblings under the prefix carried
\* from their ancestors: each sibling's line is the carried prefix, the
\* branch glyph (the terminal glyph for the last sibling) and its label
\* (root siblings: the label alone); what is below a sibling is drawn under
\* the carried prefix extended by the pipe (by blanks below the last one).
RECURSIVE Drawn(_, _, _)
Drawn(siblings, carried, root) ==
    Flatten([i \in DOMAIN siblings |->
        LET is_last == i = Len(siblings)
            glyph == IF is_last THEN ICONS["tree_last"] ELSE ICONS["tree_branch"]
            below == carried \o (IF is_last THEN ICONS["tree_space"] ELSE ICONS["tree_pipe"])
        IN  <<(IF root THEN <<>> ELSE carried \o glyph) \o Label(siblings[i])>>
                \o Drawn(siblings[i].value.items, below, FALSE)])

RECURSIVE PreOrder(_)
PreOrder(siblings) ==
    Flatten([i \in DOMAIN siblings |->
        <<Label(siblings[i])>> \o PreOrder(siblings[i].value.items)])

EndsWith(line, label) ==
    /\ Len(line) >= Len(label)
    /\ SubSeq(line, Len(line) - Len(label) + 1, Len(line)) = label

\* C23: tree({"a": {"b": 1}}) is the two lines 'a' and 'b: 1' under the
\* terminal glyph; in general there is exactly one line per mapping key and
\* per list element, in pre-order, and a simple value is on its key's line.
C23_TreeLines ==
    IsTree =>
        /\ ArgData = ExampleTree =>
              OutLines = <<<<"a">>,
                           ICONS["tree_space"] \o ICONS["tree_last"] \o <<"b", ":", " ", "1">>>>
        /\ ArgData = <<>> => render.out = <<>>
        /\ ArgData # <<>> =>
              LET lines == OutLines
                  labels == PreOrder(ArgData)
              IN  /\ Len(lines) = Len(labels)
                  /\ \A k \in DOMAIN lines : EndsWith(lines[k], labels[k])

\* C23 witness: tree({"a": {"b": 1}}) has been rendered in two lines.
C23_Witness ==
    /\ IsTree /\ ArgData = ExampleTree /\ Len(OutLines) = 2
    /\ EndsWith(OutLines[2], <<"b", ":", " ", "1">>)

\* ---------------------------------------------------- determinism: claims
\* C26 (as claimed): two calls of table, box, list_display or tree with the
\* same arguments give the same output, whatever happened between them,
\* changes of the page width included.
C26_Deterministic ==
    render.again => render.out2 = render.out

\* box reads config.width: the width argument is omitted (or 0).
ReadsPageWidth ==
    render.fn = "box" /\ (~render.args.width.given \/ render.args.width.val = 0)

\* C26 (amended): two calls with the same arguments give the same output,
\* unless the renderer is box without a width and the page width differs
\* between the calls; box without a width is as wide as the page is at the
\* time of the call.
C26_DeterministicGivenWidth ==
    render.again =>
        /\ (~ReadsPageWidth \/ render.cfg2 = render.cfg) => render.out2 = render.out
        /\ ReadsPageWidth =>
              LET lines == Split(render.out2, NL)
              IN  \A k \in 2..Len(lines) : Len(lines[k]) = render.cfg2

\* C26 witness: a box with an explicit width has been rendered twice, the
\* page width having changed in between, with the same output.
C26_Witness ==
    /\ render.again /\ render.fn = "box" /\ render.args.width = Some(5)
    /\ render.cfg2 # render.cfg /\ render.args.content = <<"a", "a">>
    /\ render.out2 = render.out /\ render.out # <<>>

\* ------------------------------------------------------- registry: claims
\* C27: an execute of a name the registry has no entry for has no effect:
\* no operation is invoked, the serializer is not called, and the state
\* instances, the registries, the facades and the namespaces are what they
\* were before the call.
C27_FailedLookupNoEffect ==
    [][(last'.op = "execute" /\ last'.name \notin Keys(RegOf(last'.app))) =>
          /\ last'.outcome = "ValueError"
          /\ last'.calls = 0 /\ last'.sercalls = 0
          /\ last'.result = NoResult /\ last'.rendered = NoRender
          /\ stateHeap' = stateHeap /\ regHeap' = regHeap
          /\ apps' = apps /\ nsHeap' = nsHeap]_vars

\* C27 witness: the lookup of g has failed on the root facade while f is
\* registered and the state has already been mutated by it.
C27_Witness ==
    /\ IsExecute /\ last.outcome = "ValueError" /\ ~IsView(last.app)
    /\ last.name = "g" /\ "f" \in Keys(RegOf(last.app))
    /\ last.calls = 0 /\ last.sercalls = 0
    /\ stateHeap # <<>> /\ stateHeap[RootApp.state].val = 1

HelpStep ==
    /\ last'.op \in {"execute", "call"} /\ last'.outcome = "ok"
    /\ last'.pair.func.body = "helpdata"
    /\ ncalls' = ncalls /\ last' # last

StartsWith(text, prefix) ==
    Len(text) >= Len(prefix) /\ SubSeq(text, 1, Len(prefix)) = prefix

\* The commands registered at the moment of the step: the names
\* list_commands returns.
PrimaryNow == Range(list_commands(last'.app))

\* One row per primary command registered at that moment, none for an alias
\* entry, none for the synthesized help.
RowsMatchRegistry ==
    LET rows == last'.result.rows
    IN  /\ Len(rows) = Cardinality(PrimaryNow)
        /\ \A k \in PrimaryNow :
               \E i \in DOMAIN rows : StartsWith(rows[i].Command, Chars(k) \o <<"(">>)
        /\ RegOf(last'.app).map["help"].func.name = "help_command" =>
               \A i \in DOMAIN rows : ~StartsWith(rows[i].Command, Chars("help"))

\* Rows ascend by signature text.
RowsSorted ==
    LET rows == last'.result.rows
    IN  \A i \in 1..(Len(rows) - 1) : StrLess(rows[i].Command, rows[i + 1].Command)

\* When the state instance is injected, each signature lists the parameters
\* of the operation after the first, which receives the state.
SignaturesOmitInjected ==
    LET rows == last'.result.rows
        d == RegOf(last'.app)
        listed(k) == LET ps == Tail(Parameters(d.map[k].func))
                     IN  [i \in DOMAIN ps |-> ParamText(ps[i])]
    IN  last'.passed # 0 =>
            \A k \in PrimaryNow :
                \E i \in DOMAIN rows :
                    rows[i].Command = Chars(k) \o <<"(">> \o JoinParams(listed(k)) \o <<")">>

\* C29 (as claimed): the synthesized help returns one row per primary
\* command registered when it is executed (commands registered after bind
\* included, aliases and the synthesized help excluded), sorted ascending by
\* signature, each signature listing the operation's parameters except the
\* injected state parameter.
C29_HelpRows ==
    [][HelpStep => RowsMatchRegistry /\ RowsSorted /\ SignaturesOmitInjected]_vars

\* C29 witness: the synthesized help has run with the state injected while
\* g, whose state parameter is named s, is registered: its row reads g(s).
C29_Witness ==
    /\ last.op \in {"execute", "call"} /\ last.outcome = "ok"
    /\ last.pair.func.body = "helpdata" /\ last.passed # 0
    /\ \E i \in DOMAIN last.result.rows :
          last.result.rows[i].Command = <<"g", "(", "s", ")">>

\* ------------------------------------------------- tool components: claims
McpTypes == {"tool", "resource", "prompt"}
\* components[f"{type}s"]
TableOf(t, type) ==
    CASE type = "tool" -> t.tools [] type = "resource" -> t.resources [] OTHER -> t.prompts
McpOf(a) == mcpHeap[apps[a].mcp]

\* C30 (as claimed): a registered command is in the table of a type exactly
\* when its fastmcp configuration is not disabled and names that type;
\* every recorded component is a registered command with the same pair; a
\* command registered with enabled False executes and is in no table; and
\* every view shares the tables of the facade it was made from.
C30_ComponentsConsistent ==
    /\ \A a \in AppIds :
          LET d == RegOf(a)
              t == McpOf(a)
          IN  /\ \A k \in Range(list_commands(a)) : \A type \in McpTypes :
                     (k \in Keys(TableOf(t, type))) <=>
                         LET fastmcp == d.map[k].meta.fastmcp
                         IN  fastmcp.given /\ fastmcp.enabled # "false" /\ fastmcp.type = type
              /\ \A type \in McpTypes : \A k \in Keys(TableOf(t, type)) :
                     k \in Keys(d) /\ d.map[k] = TableOf(t, type).map[k]
              /\ apps[a].mcp = RootApp.mcp
    /\ (IsExecute /\ last.name \in Keys(RegOf(last.app))
            /\ RegOf(last.app).map[last.name].meta.fastmcp.enabled = "false") =>
          /\ last.outcome # "ValueError" /\ last.calls = 1
          /\ \A type \in McpTypes : last.name \notin Keys(TableOf(McpOf(last.app), type))

\* C30 witness: f was registered as a tool and then registered again
\* without a fastmcp configuration: the tools table still holds the first
\* pair while the registry holds the second.
C30_Witness ==
    /\ "f" \in Keys(McpOf(1).tools) /\ "f" \in Keys(RegOf(1))
    /\ McpOf(1).tools.map["f"] # RegOf(1).map["f"]
    /\ ~RegOf(1).map["f"].meta.fastmcp.given

====
